---- MODULE Spec2Model ----
(* sol::basic_protected_function (src/sol/protected_function.hpp): the      *)
(* protected call of a Lua value from C++, its error-handler scope and the  *)
(* protected_function_result it returns.                                    *)
(*                                                                          *)
(* A Lua state is a value stack (stack[L], absolute positions 1..Len) and   *)
(* the base of the running C frame (base[L]): API index i of the frame is   *)
(* absolute position base[L] + i and lua_gettop is Len(stack[L]) - base[L]. *)
EXTENDS Integers, Sequences, FiniteSets, TLC

\* ---------------------------------------------------------------- bounds
MaxDepth == 1        \* values of a frame below a call that begins
MaxArgs == 2         \* arguments of one call
MaxNest == 2         \* protected calls in progress on one thread
MaxCalleePush == 1   \* values a callee pushes beyond its arguments
NumObjects == 2      \* basic_protected_function instances
MaxCalls == 2        \* calls one thread begins
MaxRet == 2          \* types of a typed call<Ret...>
MaxCallsMT == 1      \* calls one thread begins beside another thread

\* ------------------------------------------------------------- universes
States == {"L1", "L2"}              \* runtime instances (lua_State)
Objects == 1..NumObjects
Threads == {"T1", "T2"}
MainThread == "T1"
NoState == "null"

\* a sol::reference: unbound, or a registry slot of runtime L holding a
\* handler function
NoRef == [L |-> NoState, id |-> 0]
HandlerRefs == {[L |-> "L1", id |-> 1], [L |-> "L2", id |-> 2]}
Refs == HandlerRefs \cup {NoRef}

\* reference::valid()
RefValid(r) == r.id # 0

\* ---------------------------------------------------------------- values
Val(k, a, m) == [k |-> k, a |-> a, m |-> m]
PreVal(i) == Val("pre", i, "")          \* on the stack before any call
ArgVal(i) == Val("arg", i, "")          \* i-th argument of a call
FnVal(o) == Val("fn", o, "")            \* the callable of instance o
HandlerVal(id) == Val("handler", id, "")
StrVal(m) == Val("str", 0, m)           \* a string
TmpVal == Val("tmp", 0, "")             \* a value a callee pushed
NilVal == Val("nil", 0, "")

\* what calling function value f with the one argument StrVal(m) returns:
\* an error handler maps the message it is given to its payload
Handled(f, m) == Val("handled:" \o f.k, f.a, m)

Callable(v) == v.k \in {"handler", "fn"}

\* call_status
StatusOk == "ok"
StatusRuntime == "runtime"
StatusHandler == "handler"

Max(a, b) == IF a >= b THEN a ELSE b

VARIABLES
    default_handler,   \* handler_storage(): the process-wide default
    objs,              \* the basic_protected_function instances
    stack,             \* stack[L]: the value stack of runtime L
    base,              \* base[L]: base of the running frame of L
    acts,              \* acts[t]: the calls in progress on thread t
    last,              \* last[t]: the last call that returned on t
    aborted,           \* the process met undefined behaviour and stopped
    ncalls,            \* ncalls[t]: the calls thread t has begun
    lastcfg            \* the last operation on a handler slot

vars == <<default_handler, objs, stack, base, acts, last, aborted, ncalls, lastcfg>>

\* --------------------------------------------------------- Lua stack API
lua_gettop(st, bs, L) == Len(st[L]) - bs[L]

Push(st, L, v) == [st EXCEPT ![L] = Append(@, v)]

RECURSIVE PushArgs(_, _, _, _)
\* stack::multi_push_reference: pushes the arguments i..n in order
PushArgs(st, L, i, n) ==
    IF i > n THEN st ELSE PushArgs(Push(st, L, ArgVal(i)), L, i + 1, n)

\* the value at absolute position p (nil outside the stack)
At(st, L, p) == IF p \in 1..Len(st[L]) THEN st[L][p] ELSE NilVal

\* lua_remove at absolute position p
RemoveAt(st, L, p) ==
    [st EXCEPT ![L] = SubSeq(@, 1, p - 1) \o SubSeq(@, p + 1, Len(@))]

\* the top r values of a sequence
TopOf(s, r) == SubSeq(s, Len(s) - r + 1, Len(s))

\* ------------------------------------------------------------ instances
Unbuilt == [built |-> FALSE, L |-> NoState, error_handler |-> NoRef]

Forms == {"state_index", "stack_reference", "basic_function", "default"}

\* the runtime instance whose value instance o wraps
Owner(o) == IF o % 2 = 1 THEN "L1" ELSE "L2"

Busy(o) == \E t \in Threads : \E i \in 1..Len(acts[t]) : acts[t][i].o = o

NoCall == [valid |-> FALSE]

\* before any instance exists
InitSlot ==
    /\ default_handler = NoRef
    /\ objs = [o \in Objects |-> Unbuilt]
    /\ stack \in [States -> {[i \in 1..d |-> PreVal(i)] : d \in 0..MaxDepth}]
    /\ base = [L \in States |-> 0]
    /\ acts = [t \in Threads |-> <<>>]
    /\ last = [t \in Threads |-> NoCall]
    /\ aborted = FALSE
    /\ ncalls = [t \in Threads |-> 0]
    /\ lastcfg = [op |-> "none", o |-> 0]

\* the instances constructed from values of their runtimes, each with the
\* error_handler its construction and later assignments left
Init ==
    /\ default_handler = NoRef
    /\ objs \in [Objects -> {[built |-> TRUE, L |-> L, error_handler |-> h] :
                                L \in States, h \in Refs}]
    /\ \A o \in Objects : objs[o].L = Owner(o)
    /\ stack \in [States -> {[i \in 1..d |-> PreVal(i)] : d \in 0..MaxDepth}]
    /\ base = [L \in States |-> 0]
    /\ acts = [t \in Threads |-> <<>>]
    /\ last = [t \in Threads |-> NoCall]
    /\ aborted = FALSE
    /\ ncalls = [t \in Threads |-> 0]
    /\ lastcfg = [op |-> "none", o |-> 0]

\* get_default_handler
get_default_handler == default_handler

\* set_default_handler(ref): handler_storage() = ref
set_default_handler(ref) ==
    /\ ~aborted
    /\ default_handler' = ref
    /\ lastcfg' = [op |-> "set_default", o |-> 0]
    /\ UNCHANGED <<objs, stack, base, acts, last, aborted, ncalls>>

\* the error_handler member a constructor of the given form leaves
ConstructedHandler(form) ==
    IF form \in {"state_index", "stack_reference"}
    THEN get_default_handler
    ELSE NoRef

\* the constructors: (lua_State*, index), (stack_reference), (basic_function)
\* and the default constructor, which leaves the callable unbound
Construct(o, form) ==
    /\ ~aborted
    /\ ~objs[o].built
    /\ objs' = [objs EXCEPT ![o] =
                  [built |-> TRUE,
                   L |-> IF form = "default" THEN NoState ELSE Owner(o),
                   error_handler |-> ConstructedHandler(form)]]
    /\ lastcfg' = [op |-> form, o |-> o]
    /\ UNCHANGED <<default_handler, stack, base, acts, last, aborted, ncalls>>

\* as AssignHandler, error_handler aliasing handler_storage()
AssignHandler_Aliased(o, ref) ==
    /\ ~aborted
    /\ objs[o].built
    /\ ~Busy(o)
    /\ objs' = [objs EXCEPT ![o].error_handler = ref]
    /\ default_handler' = ref
    /\ lastcfg' = [op |-> "assign", o |-> o]
    /\ UNCHANGED <<stack, base, acts, last, aborted, ncalls>>

\* assignment to the public member error_handler; handler::target refers to
\* the member, so it is not reassigned while a call of the instance runs
AssignHandler(o, ref) ==
    /\ ~aborted
    /\ objs[o].built
    /\ ~Busy(o)
    /\ objs' = [objs EXCEPT ![o].error_handler = ref]
    /\ lastcfg' = [op |-> "assign", o |-> o]
    /\ UNCHANGED <<default_handler, stack, base, acts, last, aborted, ncalls>>

\* ------------------------------------------------ protected_function_result
\* protected_function_result(L, index, returncount, popcount, status)
PFR(L, index, returncount, popcount, status) ==
    [L |-> L, index |-> index, returncount |-> returncount,
     popcount |-> popcount, status |-> status]

\* ------------------------------------------------------------ exceptions
Shapes == {"cstr", "stdexc", "other"}
Msgs == {"boom", "oops"}
\* what a native callback throws: a const char*, a std::exception whose
\* what() is msg, or a value of another type (here a std::string)
Exceptions == {[shape |-> "cstr", msg |-> "boom"], [shape |-> "cstr", msg |-> "oops"],
               [shape |-> "stdexc", msg |-> "boom"], [shape |-> "other", msg |-> "boom"]}
UnknownErrorText == "caught (...) unknown error during protected_function call"
RawErr == "raw error"
ErrErr == "error in error handling"

NoClause == "none"

\* as CatchClause, the catch (...) clause left out
CatchClause_NoCatchAll(e) ==
    CASE e.shape = "cstr" -> "const char*"
      [] e.shape = "stdexc" -> "std::exception"
      [] OTHER -> NoClause

\* the catch clause of the deferred invoke that takes exception e
CatchClause(e) ==
    CASE e.shape = "cstr" -> "const char*"
      [] e.shape = "stdexc" -> "std::exception"
      [] OTHER -> "..."

NoResult == [L |-> NoState, index |-> 0, returncount |-> 0, popcount |-> 0,
             status |-> "none"]

\* as ExcMessage, the std::exception clause not reading what()
ExcMessage_NoWhat(e) ==
    CASE CatchClause(e) = "const char*" -> e.msg
      [] OTHER -> UnknownErrorText

\* the message the clause hands to onexcept: error, error.what(), or the
\* fixed text
ExcMessage(e) ==
    CASE CatchClause(e) = "const char*" -> e.msg
      [] CatchClause(e) = "std::exception" -> e.msg
      [] OTHER -> UnknownErrorText

\* ----------------------------------------------------------------- call
Top(t) == acts[t][Len(acts[t])]
InCallee(t) == Len(acts[t]) > 0
Pop(s) == SubSeq(s, 1, Len(s) - 1)

\* the frame of runtime L is the one its innermost call in progress runs in
RECURSIVE FrameOf(_, _)
FrameOf(as, L) ==
    IF as = <<>> THEN 0
    ELSE IF as[Len(as)].L = L THEN as[Len(as)].F
    ELSE FrameOf(Pop(as), L)
FrameIntact(t, L) == L # NoState => base[L] = FrameOf(acts[t], L)

\* as HandlerIndex, recording a position without looking at target.valid()
HandlerIndex_Unchecked(target, st, bs) ==
    IF RefValid(target) THEN lua_gettop(st, bs, target.L) + 1 ELSE 1

\* handler::handler: the recorded stackindex
HandlerIndex(target, st, bs) ==
    IF RefValid(target) THEN lua_gettop(st, bs, target.L) + 1 ELSE 0

\* handler::handler: the push
HandlerPush(target, st) ==
    IF RefValid(target) THEN Push(st, target.L, HandlerVal(target.id)) ELSE st

\* invoke(types<>): firstreturn
FirstReturn(stacksize, n) == Max(1, stacksize - n - 1)

\* invoke(types<>): returncount
ReturnCount(poststacksize, stacksize) == poststacksize - (stacksize - 1)

\* the return forms of call<Ret...>: deferred (no Ret), or typed with
\* sizeof...(Ret) = ret types, ret = 0 standing for call<void>
Deferred == "deferred"

\* call<Ret...>(args...) up to the entry of the callee: the handler scope is
\* opened, the callable and its n arguments are pushed, invoke (the deferred
\* one records stacksize and firstreturn) calls luacall and lua_pcallk
\* enters the callee's frame
CallEnter(t, o, n, ret) ==
    /\ ~aborted
    /\ objs[o].built
    /\ objs[o].L # NoState
    /\ Len(acts[t]) < MaxNest
    /\ ncalls[t] < MaxCalls
    /\ FrameIntact(t, objs[o].L)
    /\ FrameIntact(t, objs[o].error_handler.L)
    /\ lua_gettop(stack, base, objs[o].L) <= MaxDepth
    /\ LET target == objs[o].error_handler
           L == objs[o].L
           stackindex == HandlerIndex(target, stack, base)
           s1 == HandlerPush(target, stack)
           s2 == Push(s1, L, FnVal(o))
           s3 == PushArgs(s2, L, 1, n)
           stacksize == lua_gettop(s3, base, L)
           F == Len(s3[L]) - n
           a == [o |-> o, L |-> L, n |-> n, ret |-> ret, pre |-> stack,
                 D |-> lua_gettop(stack, base, L),
                 stackindex |-> stackindex,
                 hL |-> target.L,
                 hAbs |-> IF RefValid(target)
                          THEN base[target.L] + stackindex ELSE 0,
                 errAbs |-> IF stackindex = 0 THEN 0 ELSE base[L] + stackindex,
                 stacksize |-> stacksize,
                 firstreturn |-> FirstReturn(stacksize, n),
                 F |-> F, savedBase |-> base[L],
                 pushed |-> 0, nested |-> FALSE]
       IN /\ stack' = s3
          /\ base' = [base EXCEPT ![L] = F]
          /\ acts' = [acts EXCEPT ![t] =
                 Append([i \in 1..Len(@) |-> [@[i] EXCEPT !.nested = TRUE]], a)]
          /\ last' = [last EXCEPT ![t] = NoCall]
    /\ ncalls' = [ncalls EXCEPT ![t] = @ + 1]
    /\ UNCHANGED <<default_handler, objs, aborted, lastcfg>>

\* call<>(args...) / operator()(args...): the deferred form
CallBegin(t, o, n) == CallEnter(t, o, n, Deferred)

\* the callee pushes a value in its frame
CalleePush(t) ==
    /\ ~aborted
    /\ InCallee(t)
    /\ Top(t).pushed < MaxCalleePush
    /\ stack' = Push(stack, Top(t).L, TmpVal)
    /\ acts' = [acts EXCEPT ![t][Len(acts[t])].pushed = @ + 1]
    /\ last' = [last EXCEPT ![t] = NoCall]
    /\ UNCHANGED <<default_handler, objs, base, aborted, ncalls, lastcfg>>

\* handler::~handler: lua_remove is given a position of the stack
DtorDefined(a, stackindex, st, bs) ==
    LET target == objs[a.o].error_handler
    IN stackindex > 0 => bs[target.L] + stackindex \in 1..Len(st[target.L])

\* handler::~handler after the stacks st / bases bs: the stacks it leaves
HandlerDtor(a, stackindex, st, bs) ==
    LET target == objs[a.o].error_handler
    IN IF stackindex > 0
       THEN RemoveAt(st, target.L, bs[target.L] + stackindex)
       ELSE st

\* what the handler scope's destructor removed
Removed(a, stackindex, st, bs) ==
    LET target == objs[a.o].error_handler
    IN IF stackindex > 0
       THEN [L |-> target.L, abs |-> bs[target.L] + stackindex,
             v |-> At(st, target.L, bs[target.L] + stackindex)]
       ELSE [L |-> NoState, abs |-> 0, v |-> NilVal]

\* the record of a call that returned
Returned(a, path, e, r, res, stackindex, st, bs) ==
    [valid |-> TRUE, escaped |-> FALSE,
     a |-> a, path |-> path, exc |-> e, r |-> r, result |-> res,
     bound |-> RefValid(objs[a.o].error_handler),
     removed |-> Removed(a, stackindex, st, bs)]

NoExc == [shape |-> "none", msg |-> ""]

\* the rest of invoke(types<>) and of call once lua_pcallk has returned code
\* leaving stacks st and bases bs: lines 108-109, 129 and ~handler
Finish(t, path, r, code, st, bs) ==
    LET a == Top(t)
        poststacksize == lua_gettop(st, bs, a.L)
        returncount == ReturnCount(poststacksize, a.stacksize)
        res == PFR(a.L, a.firstreturn, returncount, returncount, code)
        after == HandlerDtor(a, a.stackindex, st, bs)
    IN IF ~DtorDefined(a, a.stackindex, st, bs)
       THEN /\ aborted' = TRUE
            /\ UNCHANGED <<default_handler, objs, stack, base, acts, last, ncalls, lastcfg>>
       ELSE /\ stack' = after
            /\ base' = bs
            /\ acts' = [acts EXCEPT ![t] = Pop(@)]
            /\ last' = [last EXCEPT ![t] =
                   Returned(a, path, NoExc, r, res, a.stackindex, st, bs)]
            /\ UNCHANGED <<default_handler, objs, aborted, ncalls, lastcfg>>

\* lua_pcallk returning: the results (or the error value) replace the
\* callable and everything above it, and the caller's frame is current again
PcallLeave(a, vals) ==
    [stack EXCEPT ![a.L] = SubSeq(@, 1, a.F - 1) \o vals]

\* the callee returns its top r values: lua_pcallk reports LUA_OK
CallReturn(t, r) ==
    /\ ~aborted
    /\ InCallee(t)
    /\ LET a == Top(t)
       IN /\ a.ret = Deferred
          /\ r <= Len(stack[a.L]) - a.F
          /\ Finish(t, "return", r, StatusOk,
                    PcallLeave(a, TopOf(stack[a.L], r)),
                    [base EXCEPT ![a.L] = a.savedBase])

\* the status and the error value lua_pcallk leaves for an error of the
\* given kind raised in the callee with message RawErr
PcallError(a, kind) ==
    LET f == At(stack, a.L, a.errAbs)
    IN CASE kind = "runtime" /\ a.errAbs = 0 -> <<StatusRuntime, StrVal(RawErr)>>
         [] kind = "runtime" /\ a.errAbs # 0 /\ Callable(f) ->
                <<StatusRuntime, Handled(f, RawErr)>>
         [] OTHER -> <<StatusHandler, StrVal(ErrErr)>>

\* the callee raises a Lua error: lua_pcallk reports a non-ok status
CallRaise(t, kind) ==
    /\ ~aborted
    /\ InCallee(t)
    /\ LET a == Top(t)
           pe == PcallError(a, kind)
       IN /\ a.ret = Deferred
          /\ Finish(t, "raise", 1, pe[1], PcallLeave(a, <<pe[2]>>),
                    [base EXCEPT ![a.L] = a.savedBase])

\* onexcept(error) on the stacks st / bases bs: the handler is pushed on its
\* own runtime, the message on the callable's, and lua_call(L, 1, 1) calls
\* the value under the message
OnExceptPushed(a, msg, st) ==
    LET target == objs[a.o].error_handler
    IN IF RefValid(target)
       THEN Push(HandlerPush(target, st), a.L, StrVal(msg))
       ELSE Push(st, a.L, StrVal(msg))

\* lua_call(L, 1, 1) in onexcept finds a function under the message, inside
\* the running frame
OnExceptDefined(a, msg, st, bs) ==
    LET target == objs[a.o].error_handler
        s2 == OnExceptPushed(a, msg, st)
        fpos == Len(s2[a.L]) - 1
    IN RefValid(target) => (fpos > bs[a.L] /\ Callable(At(s2, a.L, fpos)))

OnExcept(a, msg, st, bs) ==
    LET target == objs[a.o].error_handler
        s2 == OnExceptPushed(a, msg, st)
        fpos == Len(s2[a.L]) - 1
    IN IF RefValid(target)
       THEN [s2 EXCEPT ![a.L] =
               SubSeq(@, 1, fpos - 1) \o <<Handled(At(s2, a.L, fpos), msg)>>]
       ELSE s2

\* the frames a native callback called in the callee can run in: the
\* callee's own, or that of a function the callee pushed
ThrowFrames(a) == {a.F} \cup ((a.F + a.n + 1)..Len(stack[a.L]))

\* as Invalidated, onexcept leaving h.stackindex as it is
Invalidated_Kept(stackindex) == stackindex

\* onexcept: h.stackindex = 0
Invalidated(stackindex) == 0

\* a native callback running in the frame with base b throws e through
\* lua_pcallk; no frame is unwound and no value is removed on the way to
\* the catch clauses of invoke(types<>)
CallThrow(t, e, b) ==
    /\ ~aborted
    /\ InCallee(t)
    /\ LET a == Top(t)
           msg == ExcMessage(e)
           bs == [base EXCEPT ![a.L] = b]
           st == OnExcept(a, msg, stack, bs)
           firstreturn == lua_gettop(st, bs, a.L)
           res == PFR(a.L, firstreturn, 0, 1, StatusRuntime)
       IN /\ a.ret = Deferred
          /\ b \in ThrowFrames(a)
          /\ IF CatchClause(e) = NoClause
             THEN \* no clause takes e: it leaves call, unwinding the scope
                  IF ~DtorDefined(a, a.stackindex, stack, bs)
                  THEN /\ aborted' = TRUE
                       /\ UNCHANGED <<default_handler, objs, stack, base, acts,
                                      last, ncalls, lastcfg>>
                  ELSE /\ stack' = HandlerDtor(a, a.stackindex, stack, bs)
                       /\ base' = bs
                       /\ acts' = [acts EXCEPT ![t] = Pop(@)]
                       /\ last' = [last EXCEPT ![t] =
                              [Returned(a, "throw", e, 0, NoResult, a.stackindex,
                                        stack, bs) EXCEPT !.escaped = TRUE]]
                       /\ UNCHANGED <<default_handler, objs, aborted, ncalls, lastcfg>>
             ELSE IF ~OnExceptDefined(a, msg, stack, bs)
             THEN /\ aborted' = TRUE
                  /\ UNCHANGED <<default_handler, objs, stack, base, acts, last, ncalls, lastcfg>>
             ELSE /\ stack' = HandlerDtor(a, Invalidated(a.stackindex), st, bs)
                  /\ base' = bs
                  /\ acts' = [acts EXCEPT ![t] = Pop(@)]
                  /\ last' = [last EXCEPT ![t] =
                         Returned(a, "throw", e, 1, res,
                                  Invalidated(a.stackindex), st, bs)]
                  /\ UNCHANGED <<default_handler, objs, aborted, ncalls, lastcfg>>

\* ------------------------------------------------- typed return forms
\* call<Ret...> with ret = sizeof...(Ret) types; ret = 0 is call<void>
TypedForms == 0..MaxRet

\* as ResultCount, the tuple form asking for one result
ResultCount_One(ret) == IF ret = 0 THEN 0 ELSE 1

\* the resultcount each typed invoke hands to luacall
ResultCount(ret) ==
    CASE ret = 0 -> 0          \* invoke(types<void>, ...)
      [] ret = 1 -> 1          \* invoke(types<Ret>, ...)
      [] OTHER -> ret          \* invoke(types<Ret...>, ...): sizeof...(Ret)

\* the values stack::pop takes from the top: none for void, one per type
PopCount(ret) ==
    CASE ret = 0 -> 0
      [] ret = 1 -> 1
      [] OTHER -> ret

\* lua_pcallk adjusts the callee's results to nresults values
Adjust(vals, nresults) ==
    [i \in 1..nresults |-> IF i <= Len(vals) THEN vals[i] ELSE NilVal]

\* call<Ret...>(args...) with Ret given
CallTyped(t, o, n, ret) == ret \in TypedForms /\ CallEnter(t, o, n, ret)

\* stack::pop is given PopCount values of the running frame
PopDefined(a, st, bs) == lua_gettop(st, bs, a.L) >= PopCount(a.ret)

\* what a typed call returned: the values popped and the status nobody read
Typed(L, values, code) == [L |-> L, values |-> values, status |-> code]

\* the rest of a typed invoke and of call once lua_pcallk has returned code
\* leaving stacks st and bases bs: stack::pop, then ~handler
TypedFinish(t, path, r, code, st, bs) ==
    LET a == Top(t)
        k == PopCount(a.ret)
        popped == [st EXCEPT ![a.L] = SubSeq(@, 1, Len(@) - k)]
        res == Typed(a.L, TopOf(st[a.L], k), code)
    IN IF ~PopDefined(a, st, bs) \/ ~DtorDefined(a, a.stackindex, popped, bs)
       THEN /\ aborted' = TRUE
            /\ UNCHANGED <<default_handler, objs, stack, base, acts, last, ncalls, lastcfg>>
       ELSE /\ stack' = HandlerDtor(a, a.stackindex, popped, bs)
            /\ base' = bs
            /\ acts' = [acts EXCEPT ![t] = Pop(@)]
            /\ last' = [last EXCEPT ![t] =
                   Returned(a, path, NoExc, r, res, a.stackindex, popped, bs)]
            /\ UNCHANGED <<default_handler, objs, aborted, ncalls, lastcfg>>

\* the callee returns its top r values: lua_pcallk reports LUA_OK and leaves
\* the number of results the typed invoke asked for
TypedReturn(t, r) ==
    /\ ~aborted
    /\ InCallee(t)
    /\ LET a == Top(t)
       IN /\ a.ret \in TypedForms
          /\ r <= Len(stack[a.L]) - a.F
          /\ TypedFinish(t, "return", r, StatusOk,
                 PcallLeave(a, Adjust(TopOf(stack[a.L], r), ResultCount(a.ret))),
                 [base EXCEPT ![a.L] = a.savedBase])

\* the callee raises a Lua error: lua_pcallk leaves the one error value,
\* whatever number of results was asked for, and the status is dropped
TypedRaise(t, kind) ==
    /\ ~aborted
    /\ InCallee(t)
    /\ LET a == Top(t)
           pe == PcallError(a, kind)
       IN /\ a.ret \in TypedForms
          /\ TypedFinish(t, "raise", 1, pe[1], PcallLeave(a, <<pe[2]>>),
                 [base EXCEPT ![a.L] = a.savedBase])

\* a native callback throws e through lua_pcallk: the typed invokes have no
\* catch clause, e leaves call and unwinding runs ~handler
TypedThrow(t, e, b) ==
    /\ ~aborted
    /\ InCallee(t)
    /\ LET a == Top(t)
           bs == [base EXCEPT ![a.L] = b]
       IN /\ a.ret \in TypedForms
          /\ b \in ThrowFrames(a)
          /\ IF ~DtorDefined(a, a.stackindex, stack, bs)
             THEN /\ aborted' = TRUE
                  /\ UNCHANGED <<default_handler, objs, stack, base, acts,
                                 last, ncalls, lastcfg>>
             ELSE /\ stack' = HandlerDtor(a, a.stackindex, stack, bs)
                  /\ base' = bs
                  /\ acts' = [acts EXCEPT ![t] = Pop(@)]
                  /\ last' = [last EXCEPT ![t] =
                         [Returned(a, "throw", e, 0, NoResult, a.stackindex,
                                   stack, bs) EXCEPT !.escaped = TRUE]]
                  /\ UNCHANGED <<default_handler, objs, aborted, ncalls, lastcfg>>

\* ---------------------------------------------------------- specification
\* no stack of the model grows beyond this length
MaxAbs == (MaxDepth + 1) + MaxNest * (MaxDepth + MaxArgs + MaxCalleePush + 4)

Step(t) ==
    \/ \E o \in Objects, n \in 0..MaxArgs : CallBegin(t, o, n)
    \/ CalleePush(t)
    \/ \E r \in 0..MaxAbs : CallReturn(t, r)
    \/ \E kind \in {"runtime"} : CallRaise(t, kind)
    \/ \E e \in Exceptions, b \in 0..MaxAbs : CallThrow(t, e, b)

Configure ==
    \/ \E ref \in Refs : set_default_handler(ref)
    \/ \E o \in Objects, form \in Forms : Construct(o, form)
    \/ \E o \in Objects, ref \in Refs : AssignHandler(o, ref)

Next == Step(MainThread)

\* the calls of instances that exist
Spec == Init /\ [][Next]_vars

\* the handler slots: the process-wide default and the instances' members
SpecSlot == InitSlot /\ [][Configure]_vars

StepTyped(t) ==
    \/ \E o \in Objects, n \in 0..MaxArgs, ret \in TypedForms :
           CallTyped(t, o, n, ret)
    \/ CalleePush(t)
    \/ \E r \in 0..MaxAbs : TypedReturn(t, r)
    \/ \E kind \in {"runtime"} : TypedRaise(t, kind)
    \/ \E e \in Exceptions, b \in 0..MaxAbs : TypedThrow(t, e, b)

NextTyped == StepTyped(MainThread)

\* the typed calls of instances that exist
SpecTyped == Init /\ [][NextTyped]_vars

\* the runtime instance a thread makes its calls on
RuntimeOf(t) == IF t = MainThread THEN "L1" ELSE "L2"

\* a call of thread t on a callable of its own runtime
CallOwn(t, o, n) ==
    /\ objs[o].L = RuntimeOf(t)
    /\ ncalls[t] < MaxCallsMT
    /\ CallBegin(t, o, n)

StepMT(t) ==
    \/ \E o \in Objects, n \in 0..MaxArgs : CallOwn(t, o, n)
    \/ CalleePush(t)
    \/ \E r \in 0..MaxAbs : CallReturn(t, r)
    \/ \E kind \in {"runtime"} : CallRaise(t, kind)
    \/ \E e \in Exceptions, b \in 0..MaxAbs : CallThrow(t, e, b)

NextMT == \E t \in Threads : StepMT(t)

\* two threads, each calling the callables of its own runtime, interleaved
SpecMT == Init /\ [][NextMT]_vars

\* ============================================================ properties
\* The result count of a protected_function_result is the number of stack
\* values it describes and its consumer removes (popcount); on the normal
\* exit of invoke(types<>) it equals returncount.

\* the values at API indices index .. index + count - 1 of the running frame
Range(L, index, count) ==
    [i \in 1..count |-> At(stack, L, base[L] + index + i - 1)]

Returns(t) == last[t].valid /\ ~last[t].escaped
DepthAfter(t) == lua_gettop(stack, base, last[t].a.L)
OwnHandlerVal(t) == HandlerVal(objs[last[t].a.o].error_handler.id)
HandlerOn(L) == \E i \in 1..Len(stack[L]) : stack[L][i].k = "handler"

\* the callee returned exactly its arguments and did nothing else
IdentityRun(t) ==
    /\ last[t].path = "return"
    /\ last[t].r = last[t].a.n
    /\ last[t].a.pushed = 0
    /\ ~last[t].a.nested

\* C1: after a deferred call with an unbound error_handler the stack depth
\* is the depth before the call plus the result count of the returned
\* protected_function_result.
C1_StackBalance ==
    \A t \in Threads :
        (Returns(t) /\ ~last[t].bound) =>
            DepthAfter(t) = last[t].a.D + last[t].result.popcount

\* C2: after a call with a bound error_handler has returned, normally or
\* through a caught native exception, no handler value is on a stack.
C2_HandlerAbsent ==
    \A t \in Threads :
        (Returns(t) /\ last[t].bound /\ acts[t] = <<>>) =>
            \A L \in States : ~HandlerOn(L)

\* C3: an identity-like callable called with N arguments yields status ok,
\* result count N and the N arguments, in order, in the described range.
C3_Identity ==
    \A t \in Threads :
        (Returns(t) /\ IdentityRun(t)) =>
            /\ last[t].result.status = StatusOk
            /\ last[t].result.returncount = last[t].a.n
            /\ last[t].result.popcount = last[t].a.n
            /\ Range(last[t].a.L, last[t].result.index, last[t].a.n)
                 = [i \in 1..last[t].a.n |-> ArgVal(i)]

\* C4: a callable that raises a runtime error yields status runtime-error
\* and exactly one result, the error payload: the handler's transformation
\* of the raw message when error_handler is bound, else the raw message.
C4_RuntimeError ==
    \A t \in Threads :
        (Returns(t) /\ last[t].path = "raise") =>
            /\ last[t].result.status = StatusRuntime
            /\ last[t].result.returncount = 1
            /\ last[t].result.popcount = 1
            /\ At(stack, last[t].a.L, base[last[t].a.L] + last[t].result.index)
                 = IF last[t].bound
                   THEN Handled(OwnHandlerVal(t), RawErr)
                   ELSE StrVal(RawErr)

\* the message an exception carries for the catch clauses: the const char*
\* itself or what(); a value of another type carries none they can read
CarriesMessage(e, m) == e.shape \in {"cstr", "stdexc"} /\ e.msg = m

Caught(t) == Returns(t) /\ last[t].path = "throw"
TopAfter(t) == At(stack, last[t].a.L, Len(stack[last[t].a.L]))
AtIndex(t) == At(stack, last[t].a.L, base[last[t].a.L] + last[t].result.index)

Normalized(e) == IF e.shape = "other" THEN UnknownErrorText ELSE e.msg

\* C6: every native exception thrown during the deferred call is caught in
\* call, and the three shapes give the same outcome (status runtime-error,
\* counts 0 and 1, payload on top of the stack through the handler or pushed
\* directly) up to the message, which is fixed for an unrecognized type.
C6_Normalized ==
    \A t \in Threads :
        (last[t].valid /\ last[t].path = "throw") =>
            /\ ~last[t].escaped
            /\ last[t].result = PFR(last[t].a.L, DepthAfter(t), 0, 1, StatusRuntime)
            /\ AtIndex(t) = TopAfter(t)
            /\ TopAfter(t).m = Normalized(last[t].exc)
            /\ ~last[t].bound => TopAfter(t) = StrVal(Normalized(last[t].exc))
            /\ last[t].bound => \E f \in {At(stack, last[t].a.L, i) : i \in 1..MaxAbs} \cup
                                       {OwnHandlerVal(t)} :
                                   TopAfter(t) = Handled(f, Normalized(last[t].exc))
            /\ (last[t].bound /\ last[t].a.hL = last[t].a.L) =>
                   TopAfter(t) = Handled(OwnHandlerVal(t), Normalized(last[t].exc))

C6_Witness ==
    \E t \in Threads :
        /\ last[t].valid /\ last[t].path = "throw"
        /\ last[t].exc.shape = "other"
        /\ last[t].bound

\* C9: in re-entrant calls every bound call's scope removes the handler it
\* pushed, inner scopes before enclosing ones, and no handler is on a stack
\* once the outermost call has returned.
C9_Nesting ==
    \A t \in Threads :
        (Returns(t) /\ last[t].bound /\ (InCallee(t) \/ last[t].a.nested)) =>
            /\ last[t].removed = [L |-> last[t].a.hL, abs |-> last[t].a.hAbs,
                                  v |-> OwnHandlerVal(t)]
            /\ acts[t] = <<>> => \A L \in States : ~HandlerOn(L)

\* C10: while a call with a bound error_handler is in progress the handler
\* was pushed on the stack of the callable's runtime and the position given
\* to lua_pcallk holds the handler on that stack.
C10_HandlerOnOwnStack ==
    \A t \in Threads : \A i \in 1..Len(acts[t]) :
        acts[t][i].stackindex > 0 =>
            /\ acts[t][i].hL = acts[t][i].L
            /\ At(stack, acts[t][i].L, acts[t][i].errAbs)
                 = HandlerVal(objs[acts[t][i].o].error_handler.id)

\* C7: an instance under construction gets the value of the process-wide
\* default handler as its error_handler, whatever the construction form.
C7_FromDefault ==
    [][\A o \in Objects :
          (~objs[o].built /\ objs'[o].built) =>
              objs'[o].error_handler = default_handler]_vars

\* C8: assigning one instance's error_handler changes no other instance and
\* not the default; set_default_handler changes no instance.
C8_Independent ==
    [][/\ \A o \in Objects :
             lastcfg' = [op |-> "assign", o |-> o] =>
                 /\ default_handler' = default_handler
                 /\ \A p \in Objects \ {o} : objs'[p] = objs[p]
       /\ lastcfg'.op = "set_default" => objs' = objs]_vars

C8_Witness ==
    /\ lastcfg.op = "assign"
    /\ \A o \in Objects : objs[o].built
    /\ RefValid(default_handler)
    /\ \E o \in Objects :
          /\ lastcfg.o = o
          /\ RefValid(objs[o].error_handler)
          /\ objs[o].error_handler # default_handler
          /\ \E p \in Objects \ {o} : objs[p].error_handler = default_handler


\* a deferred call whose lua_pcallk completed with the callee's return
Completed(t) == Returns(t) /\ last[t].a.ret = Deferred /\ last[t].path = "return"

\* C11: the index recorded in the result of a normally completed deferred
\* call is the stack position of the first value the callee produced, as the
\* stack stands once call has returned: the slot above the values that were
\* there before the call, with error_handler bound or unbound.
C11_FirstReturn ==
    \A t \in Threads :
        Completed(t) =>
            /\ last[t].result.index = last[t].a.D + 1
            /\ last[t].r > 0 =>
                   AtIndex(t) = At(stack, last[t].a.L,
                                   Len(stack[last[t].a.L]) - last[t].r + 1)

\* C12: on normal completion of a deferred call returncount is the number of
\* values the callee left as results, whatever the number of arguments, and
\* is never negative.
C12_ReturnCount ==
    \A t \in Threads :
        Completed(t) =>
            /\ last[t].result.returncount = last[t].r
            /\ last[t].result.returncount >= 0


NothingRemoved == [L |-> NoState, abs |-> 0, v |-> NilVal]

\* C13: when a native exception is caught in the deferred invoke the handler
\* scope is invalidated, so its destructor removes nothing and the handler
\* it pushed is still in its slot; on every other exit of a call with a
\* bound handler the destructor removes one value, the one at the recorded
\* index of the handler's stack (the handler itself when it was pushed on
\* the callable's stack).
C13_ScopeExit ==
    \A t \in Threads :
        (Returns(t) /\ last[t].a.ret = Deferred /\ last[t].bound) =>
            IF last[t].path = "throw"
            THEN /\ last[t].removed = NothingRemoved
                 /\ At(stack, last[t].a.hL, last[t].a.hAbs) = OwnHandlerVal(t)
            ELSE /\ last[t].removed.L = last[t].a.hL
                 /\ last[t].removed.abs
                        = base[last[t].a.hL] + last[t].a.stackindex
                 /\ last[t].a.hL = last[t].a.L =>
                        /\ last[t].removed.abs = last[t].a.hAbs
                        /\ last[t].removed.v = OwnHandlerVal(t)
                        /\ Len(stack[last[t].a.L])
                              = last[t].a.savedBase + last[t].a.D + last[t].r

C13_Witness ==
    \E t \in Threads :
        /\ Caught(t) /\ last[t].bound
        /\ last[t].a.hL = last[t].a.L
        /\ last[t].a.D > 0


\* C14: when a native exception is caught and error_handler is bound, the
\* handler is called once, directly, with the exception's message as its
\* only argument; its single return value is on top of the stack and the
\* index of the outcome designates it.
C14_HandlerInvoked ==
    \A t \in Threads :
        /\ (Caught(t) /\ last[t].bound) =>
               /\ TopAfter(t) = Handled(OwnHandlerVal(t), Normalized(last[t].exc))
               /\ AtIndex(t) = TopAfter(t)
               /\ last[t].result.index = DepthAfter(t)
        \* an exception thrown now finds the handler under its message
        /\ (~aborted /\ InCallee(t) /\ Top(t).ret = Deferred
                /\ RefValid(objs[Top(t).o].error_handler)) =>
               \A e \in Exceptions, b \in ThrowFrames(Top(t)) :
                   LET a == Top(t)
                       msg == ExcMessage(e)
                       s2 == OnExceptPushed(a, msg, stack)
                   IN /\ OnExceptDefined(a, msg, stack, [base EXCEPT ![a.L] = b])
                      /\ At(s2, a.L, Len(s2[a.L]) - 1)
                           = HandlerVal(objs[a.o].error_handler.id)


\* C15: with error_handler unbound the handler scope does nothing for the
\* whole call: the constructor pushes nothing (the callable lies directly on
\* the values that were there), valid() is false, lua_pcallk is given
\* handler position 0 (an error value is the raw message) and the destructor
\* removes nothing.
C15_UnboundNoOp ==
    \A t \in Threads :
        /\ (InCallee(t) /\ ~RefValid(objs[Top(t).o].error_handler)) =>
               /\ Top(t).stackindex = 0
               /\ Top(t).errAbs = 0
               /\ Top(t).F = Top(t).savedBase + Top(t).D + 1
               /\ Top(t).hAbs = 0
               /\ SubSeq(stack[Top(t).L], 1, Top(t).F - 1)
                    = Top(t).pre[Top(t).L]
        /\ (Returns(t) /\ ~last[t].bound) =>
               /\ last[t].removed = NothingRemoved
               /\ last[t].path = "raise" =>
                      /\ last[t].result.status = StatusRuntime
                      /\ TopAfter(t) = StrVal(RawErr)
               /\ (last[t].path # "throw" /\ last[t].a.ret = Deferred) =>
                      Len(stack[last[t].a.L])
                          = last[t].a.savedBase + last[t].a.D + last[t].r

C15_Witness ==
    \E t \in Threads :
        /\ Returns(t) /\ ~last[t].bound
        /\ last[t].path = "raise"
        /\ last[t].a.D > 0


\* C16: a bound handler is pushed before the callable and every argument:
\* its recorded position is strictly below the callable's position and names
\* the same slot, holding the handler, from the push until lua_pcallk
\* returns, whatever the number of arguments.
C16_HandlerSlot ==
    \A t \in Threads : \A i \in 1..Len(acts[t]) :
        LET a == acts[t][i]
        IN RefValid(objs[a.o].error_handler) =>
               /\ a.stackindex > 0
               /\ a.stackindex < a.F - a.savedBase
               /\ At(stack, a.L, a.savedBase + a.stackindex)
                    = HandlerVal(objs[a.o].error_handler.id)


\* a typed call that came back from lua_pcallk
TypedDone(t) == Returns(t) /\ last[t].a.ret \in TypedForms

\* C17: for the typed-return forms (void, one type, a tuple of two or more)
\* whose lua_pcallk completes with status ok, the stack after the call is
\* the stack before it, with error_handler bound and unbound: the number of
\* results asked for is produced, that number is popped and the handler slot
\* is removed.
C17_TypedBalance ==
    \A t \in Threads :
        (TypedDone(t) /\ last[t].path = "return") =>
            /\ last[t].result.status = StatusOk
            /\ DepthAfter(t) = last[t].a.D
            /\ base[last[t].a.L] = last[t].a.savedBase
            /\ stack[last[t].a.L] = last[t].a.pre[last[t].a.L]
            /\ Len(last[t].result.values) = last[t].a.ret
            /\ \A i \in 1..last[t].a.ret :
                   i > last[t].r => last[t].result.values[i] = NilVal
            /\ last[t].bound => last[t].removed.L = last[t].a.hL
            /\ (last[t].bound /\ last[t].a.hL = last[t].a.L) =>
                   /\ last[t].removed.abs = last[t].a.hAbs
                   /\ last[t].removed.v = OwnHandlerVal(t)

C17_Witness ==
    \E t \in Threads :
        /\ TypedDone(t) /\ last[t].path = "return"
        /\ last[t].a.ret >= 2
        /\ last[t].bound
        /\ last[t].a.D > 0
        /\ last[t].r < last[t].a.ret

\* C18: for the typed-return forms, whatever status lua_pcallk returns, no
\* value that was on the stack before the call is removed or replaced: the
\* pops stay above the depth before the call and the handler scope's removal
\* takes out the handler and nothing else.
C18_TypedFrame ==
    \A t \in Threads :
        /\ (TypedDone(t) /\ last[t].path \in {"return", "raise"}) =>
               /\ Len(stack[last[t].a.L]) >= Len(last[t].a.pre[last[t].a.L])
               /\ SubSeq(stack[last[t].a.L], 1, Len(last[t].a.pre[last[t].a.L]))
                    = last[t].a.pre[last[t].a.L]
               /\ (last[t].bound /\ last[t].a.hL = last[t].a.L) =>
                      last[t].removed.v = OwnHandlerVal(t)
        \* an error raised now leaves, with its one error value, enough
        \* values above the depth before the call for the pops
        /\ (~aborted /\ InCallee(t) /\ Top(t).ret \in TypedForms) =>
               LET a == Top(t)
                   st == PcallLeave(a, <<PcallError(a, "runtime")[2]>>)
               IN Len(st[a.L]) - PopCount(a.ret) >= a.savedBase + a.D


\* a step of thread t leaves every runtime but t's own as it was
OwnStackOnly(t) ==
    acts'[t] # acts[t] =>
        \A L \in States \ {RuntimeOf(t)} :
            stack'[L] = stack[L] /\ base'[L] = base[L]

\* the stack of the runtime of a call that returned stands at the depth
\* before the call plus the result count
Balanced(t) ==
    Returns(t) =>
        Len(stack[RuntimeOf(t)])
            = last[t].a.savedBase + last[t].a.D + last[t].result.popcount

\* C19: calls on two independent runtime instances, interleaved arbitrarily
\* from two threads with no set_default_handler in between, share no state:
\* each call touches only the stack of its own callable's runtime, so the
\* stack balance of each instance holds under every interleaving.
C19_Independent ==
    [][\A t \in Threads : OwnStackOnly(t) /\ Balanced(t)']_vars

============================================================================
